---- MODULE Spec2Model ----
(***************************************************************************)
(* The polling control loop of the temperature/pressure monitor:           *)
(* setup() and loop() of the polling main program (src/unnamed/part_002,   *)
(* lines 412-603) together with readSensors() (src/unnamed/part_000).      *)
(* One Loop step is one complete pass through loop().  printSensorData()   *)
(* is that of src/src/display.cpp.                                         *)
(*                                                                         *)
(* A second program, the interrupt-driven screen toggle of the first       *)
(* src/src/main.cpp (lines 1-339), shares the clock, the LED pin and the   *)
(* program counter; its steps are the Screen... actions and ScreenSpec.    *)
(* PowerFaultSpec adds a display power pin that reads other than written.  *)
(*                                                                         *)
(* The sleep/wake transition which the design describes has no code in     *)
(* the sources; SleepEntry and Wake follow the design text, and SleepSpec  *)
(* adds them to the polling loop.                                          *)
(*                                                                         *)
(* The polling loop is also run from a setup() that returns just before    *)
(* millis() wraps (WrapSpec), with fair passes over two sensor periods     *)
(* (LiveSpec), and from the first line of setup() with its two             *)
(* initialization loops (BootSpec); RenderSpec is printSensorData() called *)
(* by itself.                                                              *)
(*                                                                         *)
(* Time is the millis() counter.  Temperatures are in whole degrees C,     *)
(* pressures in whole mBar, atmospheres in 1/10000 atm, altitudes in whole *)
(* metres.                                                                 *)
(***************************************************************************)
EXTENDS Integers, FiniteSets, Sequences, TLC

\* ------------------------------------------------------------ constants
sensorReadInterval == 1000
displayUpdateInterval == 100
ledBlinkDuration == 50
debounceDelay == 50
buttonHoldDuration == 1000
NUM_DISPLAY_MODES == 5

PRESSURE_MBAR == 0
PRESSURE_ATM == 1
ALTITUDE == 2
ALL_PRESS_ALT == 3
UPTIME == 4

\* The value a failed acquisition returns, and the cache's initial value.
NaN == -1

\* Pin levels.  The LED on PC13 is active LOW: LOW is lit.
LOW == "LOW"
HIGH == "HIGH"

\* delay(1000) between the initial read of setup() and its end.
ReadyDelay == 1000

\* -------------------------------------------------------------- bounds
\* millis() is an unsigned long; the counter is kept to 30 bits here.
ULongModulus == 1073741824
\* millis() when setup() returns.
SetupEnd == 3000
\* The clock never passes SetupEnd + MaxElapsed.
MaxElapsed == 1200
\* Clock advance from the start of one loop() to the start of the next.
Steps == {50, 1000}
\* Clock advance inside readSensors() up to its call of millis(): less than
\* any step.
ReadTimes == {0, 1}
\* millis() when a setup() that was held up for weeks returns: just before
\* the counter wraps.
WrapStart == ULongModulus - 100
\* A second schedule of passes, with ticks closer than debounceDelay.
FineSteps == {10, 20, 40}
FineElapsed == 200
\* A third schedule, regular passes over a time long enough for the mode
\* to go full circle.
LongSteps == {60}
LongElapsed == 1260
\* A fourth schedule, coarse passes over more than two sensor periods.
LiveSteps == {250}
LiveElapsed == 2500
\* The clock at wake: how long the sleep lasted, unless the sleep reset the
\* counter, which then restarts at WakeClockReset.
SleepTimes == {7, 5000}
WakeClockReset == 3
\* The screen-toggle program: millis() when its setup() returns, and how
\* far the clock runs after it.
ScreenSetupEnd == 2600
ScreenElapsed == 3000
\* Calls of printSensorData(): the clock at the call, and the value
\* startTimeEpoch can have.
RenderTimes == {0, 59000, 3600000, 90061000}
StartEpochs == {0, 1, 60}
\* What the sensor can return.
TempSamples == {24}
HumSamples == {45}
PresSamples == {101300, 90000}

VARIABLES
    pc,                    \* "boot" before setup(), "loop" after it; in
                           \* BootSpec the start of setup() comes first:
                           \* "displayInit", "displayRetry", "sensorInit",
                           \* "sensorRetry"
    currentMillis,         \* millis() captured at the start of the last loop()
    lastSensorReadTime,
    lastDisplayUpdateTime,
    lastDebounceTime,
    buttonState,
    lastButtonState,
    currentDisplayMode,
    currentTemperature,
    currentHumidity,
    currentPressureMbar,
    currentPressureAtm,
    currentAltitude,
    sensorReadError,
    ledIsOn,
    ledBlinkStartTime,
    ledPin,                \* level written to LED_PIN (PC13)
    frame,                 \* the frame last sent to the display
    startTimeEpoch,        \* the RTC's seconds when initializeRTC() ended
    \* the screen-toggle program
    screen_on,
    buttonPressedFlag,
    screenPower,           \* level written to SCREEN_POWER
    episodeToggles,        \* presses loop() has accepted since the press
                           \* episode under way began, counted up to 2
    pressPending,          \* a falling edge came more than debounceDelay
                           \* after the last accepted press and no press
                           \* has been accepted since
    reinitOutcome,         \* display.begin() in the iteration of loop():
                           \* "none", "toggleOk", "toggleFailed", "checkOk"
                           \* or "checkFailed"
    \* history of the last step, for the properties
    rawSince,              \* time of the first of the latest run of equal raw samples
    pressStart,            \* time buttonState last became LOW
    episodeAdvances,       \* mode advances since buttonState last became LOW
    buttonChanged,         \* the step changed buttonState
    modeAdvanced,          \* the step advanced currentDisplayMode
    readOutcome,           \* readSensors() in the step: "none", "ok" or "failed"
    displayRan,            \* the step ran the timed display update
    blinkOffFired,         \* the step ran the blink-off branch
    renders,               \* calls of printSensorData() in the step
    passLog,               \* what the step did, in the order it did it
    presses,               \* mode advances since setup()
    sinceChange,           \* ms since buttonState last changed, counted up to
                           \* debounceDelay + 1 (its value before the first change)
    awake,                 \* ms the loop has run since setup(), sleep excluded
    ticksSinceWake         \* passes since the last wake, counted up to 2 (its
                           \* value while there has been no wake)

vars == <<pc, currentMillis, lastSensorReadTime, lastDisplayUpdateTime,
          lastDebounceTime, buttonState, lastButtonState, currentDisplayMode,
          currentTemperature, currentHumidity, currentPressureMbar,
          currentPressureAtm, currentAltitude, sensorReadError, ledIsOn,
          ledBlinkStartTime, ledPin, rawSince, pressStart, episodeAdvances,
          buttonChanged, modeAdvanced, readOutcome, displayRan, blinkOffFired,
          renders, frame, startTimeEpoch, screen_on, buttonPressedFlag,
          screenPower, episodeToggles, pressPending, reinitOutcome, passLog,
          presses, sinceChange, awake, ticksSinceWake>>

\* ------------------------------------------------- unsigned arithmetic
ClockAdd(a, d) == (a + d) % ULongModulus
\* Mutant of Sub: the difference is taken as a signed number.
SubSigned(a, b) == a - b
\* a - b of two unsigned long.
Sub(a, b) == (a - b) % ULongModulus

\* ------------------------------------------------------------- sensors
isnan(x) == x = NaN

\* temp - 2.0F
CompensateTemp(t) == t - 2
\* pres / 100.0F
PaToMbar(p) == p \div 100
\* currentPressureMbar / 1013.25F
MbarToAtm(m) == (m * 1000000) \div 101325
\* bme.readAltitude(1013.25): 44330 * (1 - (hPa / 1013.25) ^ 0.1903), from the
\* pressure the call acquires itself.
AltitudeOf(p) ==
    CASE p = NaN -> NaN
      [] p = 101300 -> 2
      [] p = 90000 -> 989
      [] OTHER -> 0

\* One outcome of the acquisitions readSensors() makes: temperature, humidity,
\* pressure, and after a good read the pressure readAltitude() acquires and
\* the time until millis() is called.
Samples ==
    {s \in [temp : TempSamples \cup {NaN}, hum : HumSamples \cup {NaN},
            pres : PresSamples \cup {NaN}, altPres : PresSamples \cup {NaN},
            took : ReadTimes] :
        (isnan(s.temp) \/ isnan(s.hum) \/ isnan(s.pres))
            => (isnan(s.altPres) /\ s.took = 0)}
NoSample == [temp |-> NaN, hum |-> NaN, pres |-> NaN, altPres |-> NaN, took |-> 0]

ReadFailed(s) == isnan(s.temp) \/ isnan(s.hum) \/ isnan(s.pres)

\* Mutant of NoRead: a pass without a read clears the error flag.
NoReadClearsFlag ==
    [temp |-> currentTemperature, hum |-> currentHumidity,
     mbar |-> currentPressureMbar, atm |-> currentPressureAtm,
     alt |-> currentAltitude, err |-> FALSE, ledIsOn |-> ledIsOn,
     blinkStart |-> ledBlinkStartTime, led |-> ledPin]
\* What is kept when readSensors() is not called.
NoRead ==
    [temp |-> currentTemperature, hum |-> currentHumidity,
     mbar |-> currentPressureMbar, atm |-> currentPressureAtm,
     alt |-> currentAltitude, err |-> sensorReadError, ledIsOn |-> ledIsOn,
     blinkStart |-> ledBlinkStartTime, led |-> ledPin]

\* Mutants of ReadFailure: the failure branch leaves a pending blink-off
\* alone; the failure branch stores the acquisitions it got.
ReadFailureKeepsBlink == [NoRead EXCEPT !.err = TRUE, !.led = LOW]
ReadFailureClearsCache ==
    [temp |-> NaN, hum |-> NaN, mbar |-> NaN, atm |-> NaN, alt |-> NaN,
     err |-> TRUE, ledIsOn |-> FALSE, blinkStart |-> ledBlinkStartTime,
     led |-> LOW]

\* Mutant of ReadFailure: the failure branch arms the blink-off.
ReadFailureArmsBlink ==
    [temp |-> currentTemperature, hum |-> currentHumidity,
     mbar |-> currentPressureMbar, atm |-> currentPressureAtm,
     alt |-> currentAltitude, err |-> TRUE, ledIsOn |-> TRUE,
     blinkStart |-> ledBlinkStartTime, led |-> LOW]
\* readSensors(), failure branch: LED lit, flag set, blink-off cancelled.
ReadFailure ==
    [temp |-> currentTemperature, hum |-> currentHumidity,
     mbar |-> currentPressureMbar, atm |-> currentPressureAtm,
     alt |-> currentAltitude, err |-> TRUE, ledIsOn |-> FALSE,
     blinkStart |-> ledBlinkStartTime, led |-> LOW]

\* Mutant of ReadSuccess: the success branch leaves the error flag alone.
ReadSuccessKeepsFlag(s, t) ==
    [temp |-> CompensateTemp(s.temp), hum |-> s.hum,
     mbar |-> PaToMbar(s.pres), atm |-> MbarToAtm(PaToMbar(s.pres)),
     alt |-> AltitudeOf(s.altPres), err |-> sensorReadError, ledIsOn |-> TRUE,
     blinkStart |-> ClockAdd(t, s.took), led |-> LOW]
\* readSensors(), success branch, entered at time t: LED lit, cache
\* replaced, blink-off armed with the millis() of that moment.
ReadSuccess(s, t) ==
    [temp |-> CompensateTemp(s.temp), hum |-> s.hum,
     mbar |-> PaToMbar(s.pres), atm |-> MbarToAtm(PaToMbar(s.pres)),
     alt |-> AltitudeOf(s.altPres), err |-> FALSE, ledIsOn |-> TRUE,
     blinkStart |-> ClockAdd(t, s.took), led |-> LOW]

\* The cache, flag and LED state readSensors() leaves, called at time t.
ReadSensors(s, t) == IF ReadFailed(s) THEN ReadFailure ELSE ReadSuccess(s, t)

\* ---------------------------------------------------- loop() conditions
\* Mutant of DebounceElapsed: a raw level is taken over at once.
DebounceSkipped(now, last) == TRUE
DebounceElapsed(now, last) == Sub(now, last) > debounceDelay

\* Mutant of BlinkOffDue: the LED is never turned off.
BlinkOffNever(on, now, start) == FALSE
\* Mutant of DisplayDue: the update waits for more than the interval.
DisplayDueLate(now, last) == Sub(now, last) > displayUpdateInterval
\* Mutant of SensorDue: the read waits for more than the interval.
SensorDueLate(now, last) == Sub(now, last) > sensorReadInterval
SensorDue(now, last) == Sub(now, last) >= sensorReadInterval

DisplayDue(now, last) == Sub(now, last) >= displayUpdateInterval
BlinkOffDue(on, now, start) == on /\ Sub(now, start) >= ledBlinkDuration

\* Mutant of NextMode: the cycle of the four-mode program.
NextModeOfFour(m) == (m + 1) % 4
NextMode(m) == (m + 1) % NUM_DISPLAY_MODES
\* Mutants of CyclesMode: the mode is cycled on the release, on both edges,
\* in every pass while the button is down.
CyclesModeOnRelease(changed, state) == changed /\ state = HIGH
CyclesModeOnAnyEdge(changed, state) == changed
CyclesModeWhileHeld(changed, state) == state = LOW
\* The debounced transition on which the mode is cycled.
CyclesMode(changed, state) == changed /\ state = LOW

\* Mutant of ForcedRefreshBase: the forced refresh leaves the timer alone.
ForcedRefreshKeepsBase(now, last) == last
\* lastDisplayUpdateTime after the forced refresh at time now.
ForcedRefreshBase(now, last) == now

\* What a pass does, in the order loop() does it: the debounced button
\* change, the timed sensor read, the blink-off, the timed display update.
\* Mutant of PassLog: the blink-off comes after both timed tasks.
PassLogTimersFirst(changed, due, blinkOff, refresh) ==
    (IF changed THEN <<"button">> ELSE <<>>)
        \o (IF due THEN <<"sensor">> ELSE <<>>)
        \o (IF refresh THEN <<"display">> ELSE <<>>)
        \o (IF blinkOff THEN <<"blinkOff">> ELSE <<>>)
PassLog(changed, due, blinkOff, refresh) ==
    (IF changed THEN <<"button">> ELSE <<>>)
        \o (IF due THEN <<"sensor">> ELSE <<>>)
        \o (IF blinkOff THEN <<"blinkOff">> ELSE <<>>)
        \o (IF refresh THEN <<"display">> ELSE <<>>)

\* ------------------------------------------------------ printSensorData
\* A frame is the sequence of lines drawn between clearDisplay() and
\* display(); a line is a text, followed by a cached value when shown.
Text(s) == [text |-> s, shown |-> FALSE, value |-> 0]
Value(label, v) == [text |-> label, shown |-> TRUE, value |-> v]
BlankFrame == <<>>
ErrorFrame == <<Text("BME Sensor Error!"), Text("Check Connection")>>

\* rtc.getEpoch() at millis() = t: the RTC is set to 0 as setup() starts and
\* counts the seconds from then on.
RtcEpoch(t) == t \div 1000

\* The UPTIME screen: the seconds since startTimeEpoch, never negative,
\* split into days, hours, minutes and seconds and formatted
\* "%d d %02d:%02d:%02d"; the value of the line is the number these digits
\* spell, D HH MM SS.
\* Mutant of TotalSeconds: a negative difference is shown as its size.
TotalSecondsAbs(currentEpoch, start) ==
    IF currentEpoch >= start THEN currentEpoch - start ELSE start - currentEpoch
TotalSeconds(currentEpoch, start) ==
    IF currentEpoch >= start THEN currentEpoch - start ELSE 0
UptimeDigits(totalSeconds) ==
    LET seconds == totalSeconds % 60
        minutes == (totalSeconds \div 60) % 60
        hours == (totalSeconds \div 3600) % 24
        days == totalSeconds \div (3600 * 24)
    IN  days * 1000000 + hours * 10000 + minutes * 100 + seconds
UptimeFrame(currentEpoch, start) ==
    <<Text("Device Uptime"),
      Value("D d HH:MM:SS", UptimeDigits(TotalSeconds(currentEpoch, start)))>>

\* One line of the ALL_PRESS_ALT screen: the value, or "---" for NaN.
ValueOrDashes(label, v) ==
    IF isnan(v) THEN Text(label \o "---") ELSE Value(label, v)

\* The single-measurement screens: "Reading..." until the value is cached.
ValueOrReading(label, v) ==
    IF isnan(v) THEN Text("Reading...") ELSE Value(label, v)

\* The switch on currentDisplayMode.
ModeLines(mode, err, mbar, atm, alt, currentEpoch, start) ==
    CASE mode = PRESSURE_MBAR -> <<ValueOrReading("Press: mBar", mbar)>>
      [] mode = PRESSURE_ATM -> <<ValueOrReading("Press: atm", atm)>>
      [] mode = ALTITUDE -> <<ValueOrReading("Alt: m", alt)>>
      [] mode = ALL_PRESS_ALT ->
            IF err THEN <<Text("Sensor Error")>>
            ELSE <<ValueOrDashes("Pr(mBar): ", mbar),
                   ValueOrDashes("Pr(atm): ", atm),
                   ValueOrDashes("Alt(m):  ", alt)>>
      [] mode = UPTIME -> UptimeFrame(currentEpoch, start)
      [] OTHER -> <<>>

\* Temperature and humidity, under every screen but UPTIME and ALL_PRESS_ALT.
TempHumLines(mode, temp, hum) ==
    IF mode # UPTIME /\ mode # ALL_PRESS_ALT
    THEN IF isnan(temp) \/ isnan(hum)
         THEN <<Text("Temp: --- C"), Text("Hum:  --- %")>>
         ELSE <<Value("Temp: C", temp), Value("Hum: %", hum)>>
    ELSE <<>>

\* Mutant of printSensorData: no error check before the switch.
printSensorDataUnchecked(buffer, mode, err, temp, hum, mbar, atm, alt, currentEpoch, start) ==
    ModeLines(mode, err, mbar, atm, alt, currentEpoch, start)
        \o TempHumLines(mode, temp, hum)
\* Mutant of clearDisplay: the buffer keeps what was drawn before.
clearDisplayKeeps(buffer) == buffer
\* display.clearDisplay()
clearDisplay(buffer) == BlankFrame
\* The frame printSensorData() sends, from the display buffer as it finds
\* it, for a mode, error flag, cache and RTC reading.
printSensorData(buffer, mode, err, temp, hum, mbar, atm, alt, currentEpoch, start) ==
    clearDisplay(buffer)
        \o (IF err /\ mode # UPTIME
            THEN ErrorFrame
            ELSE ModeLines(mode, err, mbar, atm, alt, currentEpoch, start)
                     \o TempHumLines(mode, temp, hum))

\* ------------------------------------------------------------ the steps
Globals ==
    /\ currentMillis = 0
    /\ lastSensorReadTime = 0
    /\ lastDisplayUpdateTime = 0
    /\ lastDebounceTime = 0
    /\ buttonState = HIGH
    /\ lastButtonState = HIGH
    /\ currentDisplayMode = PRESSURE_MBAR
    /\ currentTemperature = NaN
    /\ currentHumidity = NaN
    /\ currentPressureMbar = NaN
    /\ currentPressureAtm = NaN
    /\ currentAltitude = NaN
    /\ sensorReadError = FALSE
    /\ ledIsOn = FALSE
    /\ ledBlinkStartTime = 0
    /\ ledPin = HIGH
    /\ rawSince = 0
    /\ pressStart = 0
    /\ episodeAdvances = 0
    /\ buttonChanged = FALSE
    /\ modeAdvanced = FALSE
    /\ readOutcome = "none"
    /\ displayRan = FALSE
    /\ blinkOffFired = FALSE
    /\ renders = 0
    /\ frame = BlankFrame
    /\ startTimeEpoch = 0
    /\ screen_on = TRUE
    /\ buttonPressedFlag = FALSE
    /\ screenPower = LOW
    /\ episodeToggles = 0
    /\ pressPending = FALSE
    /\ reinitOutcome = "none"
    /\ passLog = <<>>
    /\ presses = 0
    /\ sinceChange = debounceDelay + 1
    /\ awake = 0
    /\ ticksSinceWake = 2

Init == pc = "boot" /\ Globals

\* What the polling program leaves alone.
ScreenVars == <<screen_on, buttonPressedFlag, screenPower, episodeToggles,
                pressPending, reinitOutcome>>

\* setup(), returning at millis() = end: the initial read, one second before
\* the end, the "Ready!" message and the cleared display, then the baselines.
SetupAt(end) ==
    /\ pc = "boot"
    /\ \E s \in {x \in Samples : x.took = 0}, reading \in {LOW, HIGH} :
        LET r == ReadSensors(s, end - ReadyDelay) IN
        /\ currentTemperature' = r.temp
        /\ currentHumidity' = r.hum
        /\ currentPressureMbar' = r.mbar
        /\ currentPressureAtm' = r.atm
        /\ currentAltitude' = r.alt
        /\ sensorReadError' = r.err
        /\ ledIsOn' = r.ledIsOn
        /\ ledBlinkStartTime' = r.blinkStart
        /\ ledPin' = r.led
        /\ readOutcome' = IF ReadFailed(s) THEN "failed" ELSE "ok"
        /\ renders' = IF r.err THEN 1 ELSE 0
        /\ lastButtonState' = reading
    /\ pc' = "loop"
    /\ startTimeEpoch' = RtcEpoch(0)
    /\ currentMillis' = end
    /\ lastSensorReadTime' = end
    /\ lastDisplayUpdateTime' = end
    /\ rawSince' = end
    /\ frame' = BlankFrame
    /\ UNCHANGED <<lastDebounceTime, buttonState,
                   currentDisplayMode, pressStart, episodeAdvances,
                   buttonChanged, modeAdvanced, displayRan, blinkOffFired,
                   passLog, presses, sinceChange, awake, ticksSinceWake,
                   ScreenVars>>

Setup == SetupAt(SetupEnd)

\* loop(): one pass, started step ms after the previous one ended, while
\* the loop has run for no more than maxElapsed ms.
Pass(steps, maxElapsed) ==
    /\ pc = "loop"
    /\ \E step \in steps, reading \in {LOW, HIGH} :
        LET now == ClockAdd(currentMillis, step)
            \* button debounce
            rawChanged == reading # lastButtonState
            debounceT == IF rawChanged THEN now ELSE lastDebounceTime
            changed == DebounceElapsed(now, debounceT) /\ reading # buttonState
            state == IF changed THEN reading ELSE buttonState
            cycles == CyclesMode(changed, state)
            displayT == IF cycles
                        THEN ForcedRefreshBase(now, lastDisplayUpdateTime)
                        ELSE lastDisplayUpdateTime
            \* timed sensor reading
            due == SensorDue(now, lastSensorReadTime)
        IN
        /\ awake + step <= maxElapsed
        /\ \E s \in (IF due THEN Samples ELSE {NoSample}) :
            LET r == IF due THEN ReadSensors(s, now) ELSE NoRead
                \* blink off, then the timed display update
                blinkOff == BlinkOffDue(r.ledIsOn, now, r.blinkStart)
                refresh == DisplayDue(now, displayT)
            IN
            /\ pc' = pc
            /\ currentMillis' = now
            /\ lastDebounceTime' = debounceT
            /\ buttonState' = state
            /\ lastButtonState' = reading
            /\ currentDisplayMode' =
                   IF cycles THEN NextMode(currentDisplayMode)
                   ELSE currentDisplayMode
            /\ lastSensorReadTime' = IF due THEN now ELSE lastSensorReadTime
            /\ currentTemperature' = r.temp
            /\ currentHumidity' = r.hum
            /\ currentPressureMbar' = r.mbar
            /\ currentPressureAtm' = r.atm
            /\ currentAltitude' = r.alt
            /\ sensorReadError' = r.err
            /\ ledBlinkStartTime' = r.blinkStart
            /\ ledIsOn' = IF blinkOff THEN FALSE ELSE r.ledIsOn
            /\ ledPin' = IF blinkOff THEN HIGH ELSE r.led
            /\ lastDisplayUpdateTime' = IF refresh THEN now ELSE displayT
            /\ rawSince' = IF rawChanged THEN now ELSE rawSince
            /\ pressStart' = IF changed
                              THEN (IF state = LOW THEN now ELSE 0)
                              ELSE pressStart
            /\ episodeAdvances' =
                   (IF changed THEN 0 ELSE episodeAdvances)
                   + (IF cycles THEN 1 ELSE 0)
            /\ buttonChanged' = changed
            /\ modeAdvanced' = cycles
            /\ readOutcome' = IF ~due THEN "none"
                               ELSE IF ReadFailed(s) THEN "failed" ELSE "ok"
            /\ displayRan' = refresh
            /\ blinkOffFired' = blinkOff
            /\ renders' = (IF cycles THEN 1 ELSE 0) + (IF refresh THEN 1 ELSE 0)
            /\ frame' =
                   IF refresh
                   THEN printSensorData(
                            frame,
                            IF cycles THEN NextMode(currentDisplayMode)
                            ELSE currentDisplayMode,
                            r.err, r.temp, r.hum, r.mbar, r.atm, r.alt,
                            RtcEpoch(now), startTimeEpoch)
                   ELSE IF cycles
                   THEN printSensorData(
                            frame,
                            NextMode(currentDisplayMode), sensorReadError,
                            currentTemperature, currentHumidity,
                            currentPressureMbar, currentPressureAtm,
                            currentAltitude, RtcEpoch(now), startTimeEpoch)
                   ELSE frame
            /\ passLog' = PassLog(changed, due, blinkOff, refresh)
            /\ presses' = presses + (IF cycles THEN 1 ELSE 0)
            /\ sinceChange' = IF changed THEN 0
                              ELSE IF sinceChange + step > debounceDelay
                              THEN debounceDelay + 1
                              ELSE sinceChange + step
            /\ awake' = awake + step
            /\ ticksSinceWake' = IF ticksSinceWake < 2 THEN ticksSinceWake + 1 ELSE 2
            /\ UNCHANGED <<startTimeEpoch, ScreenVars>>

Loop == Pass(Steps, MaxElapsed)

Next == Setup \/ Loop

Spec == Init /\ [][Next]_vars

\* ------------------------------------------------- sleep and wake
\* The design's power controller; the sources hold no code for it.
\* The press under way has lasted the hold threshold.
HoldReached ==
    buttonState = LOW /\ Sub(currentMillis, pressStart) >= buttonHoldDuration

\* Sleep entry, on a hold: the indicator is forced off, the pending blink-off
\* cleared, the display powered down, the CPU halted.
SleepEntry ==
    /\ pc = "loop"
    /\ HoldReached
    /\ pc' = "asleep"
    /\ ledPin' = HIGH
    /\ ledIsOn' = FALSE
    /\ frame' = BlankFrame
    /\ buttonChanged' = FALSE
    /\ modeAdvanced' = FALSE
    /\ readOutcome' = "none"
    /\ displayRan' = FALSE
    /\ blinkOffFired' = FALSE
    /\ renders' = 0
    /\ passLog' = <<>>
    /\ UNCHANGED <<currentMillis, lastSensorReadTime, lastDisplayUpdateTime,
                   lastDebounceTime, buttonState, lastButtonState,
                   currentDisplayMode, currentTemperature, currentHumidity,
                   currentPressureMbar, currentPressureAtm, currentAltitude,
                   sensorReadError, ledBlinkStartTime, rawSince, pressStart,
                   episodeAdvances, presses, sinceChange, awake,
                   ticksSinceWake, startTimeEpoch, ScreenVars>>

\* The clock when the halt returns after going to sleep at t: t plus the
\* time slept, a counter about to wrap, or a counter the sleep has reset.
WakeClocks(t) ==
    {ClockAdd(t, d) : d \in SleepTimes}
        \cup {ULongModulus - 20, WakeClockReset}

\* Mutants of WokenState: the wake rebases the timers to now, as setup()
\* does; the wake starts from the values of a cold boot.
WokenStateBaseNow(now, reading) ==
    [lastSensor |-> now, lastDisplay |-> now,
     led |-> HIGH, ledIsOn |-> FALSE, button |-> reading,
     mode |-> currentDisplayMode, err |-> sensorReadError,
     temp |-> currentTemperature, hum |-> currentHumidity,
     mbar |-> currentPressureMbar, atm |-> currentPressureAtm,
     alt |-> currentAltitude]
WokenStateColdBoot(now, reading) ==
    [lastSensor |-> Sub(now, sensorReadInterval + 1),
     lastDisplay |-> Sub(now, displayUpdateInterval + 1),
     led |-> HIGH, ledIsOn |-> FALSE, button |-> reading,
     mode |-> PRESSURE_MBAR, err |-> FALSE,
     temp |-> NaN, hum |-> NaN, mbar |-> NaN, atm |-> NaN, alt |-> NaN]
\* What the resume leaves, at clock now with the pin at reading: both
\* timers rebased to now - period - 1, the indicator off, the debounced
\* input set to the pin, the mode and the cache as they were.
WokenState(now, reading) ==
    [lastSensor |-> Sub(now, sensorReadInterval + 1),
     lastDisplay |-> Sub(now, displayUpdateInterval + 1),
     led |-> HIGH, ledIsOn |-> FALSE, button |-> reading,
     mode |-> currentDisplayMode, err |-> sensorReadError,
     temp |-> currentTemperature, hum |-> currentHumidity,
     mbar |-> currentPressureMbar, atm |-> currentPressureAtm,
     alt |-> currentAltitude]

\* Wake: control resumes after the halt.
Wake ==
    /\ pc = "asleep"
    /\ \E now \in WakeClocks(currentMillis), reading \in {LOW, HIGH} :
        LET w == WokenState(now, reading) IN
        /\ currentMillis' = now
        /\ lastSensorReadTime' = w.lastSensor
        /\ lastDisplayUpdateTime' = w.lastDisplay
        /\ ledPin' = w.led
        /\ ledIsOn' = w.ledIsOn
        /\ buttonState' = w.button
        /\ lastButtonState' = w.button
        /\ currentDisplayMode' = w.mode
        /\ sensorReadError' = w.err
        /\ currentTemperature' = w.temp
        /\ currentHumidity' = w.hum
        /\ currentPressureMbar' = w.mbar
        /\ currentPressureAtm' = w.atm
        /\ currentAltitude' = w.alt
        /\ rawSince' = now
        /\ pressStart' = IF reading = LOW THEN now ELSE 0
    /\ pc' = "loop"
    /\ ticksSinceWake' = 0
    /\ episodeAdvances' = 0
    /\ UNCHANGED <<lastDebounceTime, ledBlinkStartTime, buttonChanged,
                   modeAdvanced, readOutcome, displayRan, blinkOffFired,
                   renders, frame, passLog, presses, sinceChange, awake,
                   startTimeEpoch, ScreenVars>>

SleepNext == Setup \/ Loop \/ SleepEntry \/ Wake
SleepSpec == Init /\ [][SleepNext]_vars

\* ------------------------------------------- the screen-toggle program
\* src/src/main.cpp, lines 1-339: a falling edge on the button raises
\* buttonPressedFlag; loop() toggles the display power on an accepted press,
\* and reads, renders and blinks only while the screen is on.
\* pc is "screenBoot" before setup(), then the place in loop(): "flagTest",
\* "timeTest", "flagReset", "body", "heartbeat".
ScreenLoopPcs == {"flagTest", "timeTest", "flagReset", "body", "heartbeat"}

\* What the screen-toggle program leaves alone.
PollVars == <<lastSensorReadTime, lastDisplayUpdateTime, buttonState,
              lastButtonState, currentDisplayMode, currentTemperature,
              currentHumidity, currentPressureMbar, currentPressureAtm,
              currentAltitude, sensorReadError, ledIsOn, ledBlinkStartTime,
              rawSince, pressStart, episodeAdvances, buttonChanged,
              modeAdvanced, displayRan, blinkOffFired, passLog, presses,
              sinceChange, awake, ticksSinceWake, startTimeEpoch>>

\* bme.readPressure() / 101325.0F
PaToAtm(p) == (p * 10000) \div 101325

\* What the sensor returns to the three reads of loop().
ScreenSamples == {s \in Samples : s.took = 0 /\ s.altPres = NaN}

\* printSensorData(pressure, temperature, humidity)
ScreenDataFrame(s) ==
    <<Value("Press: atm", PaToAtm(s.pres)), Value("Temp: C", s.temp),
      Value("Hum: %", s.hum)>>

\* The level the heartbeat blink leaves on the LED pin.
HeartbeatEnd == HIGH
\* Mutant of ScreenOffLed: the screen-off branch lights the LED.
ScreenOffLedLit == LOW
\* The level the screen-off branch writes to the LED pin.
ScreenOffLed == HIGH

\* Mutant of InitialScreenPower: setup() leaves the display unpowered.
InitialScreenPowerOff(on) == LOW
\* digitalWrite(SCREEN_POWER, screen_on ? HIGH : LOW)
InitialScreenPower(on) == IF on THEN HIGH ELSE LOW
\* Mutant of FailedReinitPower: the power stays on after a failed
\* display.begin().
FailedReinitPowerStays == HIGH
\* The level written to SCREEN_POWER when display.begin() fails.
FailedReinitPower == LOW
\* Mutant of ScreenActive: the screen-on branch is taken always.
ScreenActiveAlways(on) == TRUE
\* if (screen_on)
ScreenActive(on) == on

\* The clock may move to t.
ScreenClockOk(t) == t <= ScreenSetupEnd + ScreenElapsed

ScreenInit == pc = "screenBoot" /\ Globals

\* setup(): LED off, display powered, the interrupt attached one second
\* before the end, the display cleared.
ScreenSetup ==
    /\ pc = "screenBoot"
    /\ pc' = "flagTest"
    /\ ledPin' = HIGH
    /\ screenPower' = InitialScreenPower(screen_on)
    /\ currentMillis' = ScreenSetupEnd
    /\ frame' = BlankFrame
    /\ \E pressed \in BOOLEAN :
        buttonPressedFlag' = pressed /\ pressPending' = pressed
    /\ UNCHANGED <<screen_on, lastDebounceTime, readOutcome, renders,
                   episodeToggles, reinitOutcome, PollVars>>

\* The ISR, on a falling edge: the first edge of a new press episode, or
\* one more edge of the episode under way (the contacts bounce when the
\* button goes down and when it is let go).
handleButtonInterrupt ==
    /\ pc \in ScreenLoopPcs
    /\ buttonPressedFlag' = TRUE
    /\ \E first \in BOOLEAN :
        episodeToggles' = IF first THEN 0 ELSE episodeToggles
    /\ pressPending' = (pressPending
                        \/ DebounceElapsed(currentMillis, lastDebounceTime))
    /\ UNCHANGED <<pc, currentMillis, lastDebounceTime, ledPin, frame,
                   screen_on, screenPower, reinitOutcome, readOutcome,
                   renders, PollVars>>

\* if (buttonPressedFlag)
FlagTest ==
    /\ pc = "flagTest"
    /\ pc' = IF buttonPressedFlag THEN "timeTest" ELSE "body"
    /\ reinitOutcome' = "none"
    /\ UNCHANGED <<currentMillis, lastDebounceTime, ledPin, frame, screen_on,
                   buttonPressedFlag, screenPower, episodeToggles,
                   pressPending, readOutcome, renders, PollVars>>

\* The time test and, when it passes, the toggle: off with the "Bye"
\* message, on with the re-initialization of the display.
TimeTest ==
    /\ pc = "timeTest"
    /\ pc' = "flagReset"
    /\ IF DebounceElapsed(currentMillis, lastDebounceTime)
       THEN /\ lastDebounceTime' = currentMillis
            /\ episodeToggles' = IF episodeToggles < 2
                                 THEN episodeToggles + 1 ELSE 2
            /\ pressPending' = FALSE
            /\ IF screen_on
               THEN /\ ScreenClockOk(currentMillis + 550)
                    /\ currentMillis' = ClockAdd(currentMillis, 550)
                    /\ screenPower' = LOW
                    /\ screen_on' = FALSE
                    /\ frame' = BlankFrame
                    /\ UNCHANGED reinitOutcome
               ELSE \E ok \in BOOLEAN :
                    IF ok
                    THEN /\ ScreenClockOk(currentMillis + 600)
                         /\ currentMillis' = ClockAdd(currentMillis, 600)
                         /\ screenPower' = HIGH
                         /\ screen_on' = TRUE
                         /\ frame' = BlankFrame
                         /\ reinitOutcome' = "toggleOk"
                    ELSE /\ ScreenClockOk(currentMillis + 100)
                         /\ currentMillis' = ClockAdd(currentMillis, 100)
                         /\ screenPower' = FailedReinitPower
                         /\ screen_on' = FALSE
                         /\ frame' = frame
                         /\ reinitOutcome' = "toggleFailed"
       ELSE UNCHANGED <<lastDebounceTime, currentMillis, screenPower,
                        screen_on, frame, episodeToggles, pressPending,
                        reinitOutcome>>
    /\ UNCHANGED <<ledPin, buttonPressedFlag, readOutcome, renders, PollVars>>

\* buttonPressedFlag = false
FlagReset ==
    /\ pc = "flagReset"
    /\ pc' = "body"
    /\ buttonPressedFlag' = FALSE
    /\ UNCHANGED <<currentMillis, lastDebounceTime, ledPin, frame, screen_on,
                   screenPower, episodeToggles, pressPending, reinitOutcome,
                   readOutcome, renders, PollVars>>

\* if (screen_on) ... else ...: with the screen on, the power check, the
\* sensor read, the render and the start of the heartbeat; with it off, power
\* and LED off and a short delay.
Body ==
    /\ pc = "body"
    /\ IF ScreenActive(screen_on)
       THEN \E ok \in BOOLEAN, s \in ScreenSamples :
            IF screenPower = LOW /\ ~ok
            THEN /\ ScreenClockOk(currentMillis + 100)
                 /\ currentMillis' = ClockAdd(currentMillis, 100)
                 /\ screen_on' = FALSE
                 /\ screenPower' = FailedReinitPower
                 /\ reinitOutcome' = "checkFailed"
                 /\ pc' = "flagTest"
                 /\ readOutcome' = "none"
                 /\ renders' = 0
                 /\ UNCHANGED <<ledPin, frame>>
            ELSE /\ screenPower = LOW => ScreenClockOk(currentMillis + 100)
                 /\ currentMillis' =
                        IF screenPower = LOW
                        THEN ClockAdd(currentMillis, 100) ELSE currentMillis
                 /\ screenPower' = HIGH
                 /\ reinitOutcome' = IF screenPower = LOW THEN "checkOk"
                                      ELSE reinitOutcome
                 /\ readOutcome' = IF ReadFailed(s) THEN "failed" ELSE "ok"
                 /\ frame' = IF ReadFailed(s) THEN ErrorFrame
                              ELSE ScreenDataFrame(s)
                 /\ renders' = 1
                 /\ ledPin' = LOW
                 /\ pc' = "heartbeat"
                 /\ UNCHANGED screen_on
       ELSE /\ ScreenClockOk(currentMillis + 100)
            /\ currentMillis' = ClockAdd(currentMillis, 100)
            /\ screenPower' = LOW
            /\ ledPin' = ScreenOffLed
            /\ pc' = "flagTest"
            /\ readOutcome' = "none"
            /\ renders' = 0
            /\ UNCHANGED <<screen_on, frame, reinitOutcome>>
    /\ UNCHANGED <<lastDebounceTime, buttonPressedFlag, episodeToggles,
                   pressPending, PollVars>>

\* delay(50); LED off; delay(950)
Heartbeat ==
    /\ pc = "heartbeat"
    /\ ScreenClockOk(currentMillis + 1000)
    /\ currentMillis' = ClockAdd(currentMillis, 1000)
    /\ ledPin' = HeartbeatEnd
    /\ pc' = "flagTest"
    /\ UNCHANGED <<lastDebounceTime, frame, screen_on, buttonPressedFlag,
                   screenPower, episodeToggles, pressPending, reinitOutcome,
                   readOutcome, renders, PollVars>>

ScreenNext ==
    \/ ScreenSetup \/ handleButtonInterrupt \/ FlagTest \/ TimeTest
    \/ FlagReset \/ Body \/ Heartbeat
ScreenSpec == ScreenInit /\ [][ScreenNext]_vars

\* The display power pin is found at the other level than the one written:
\* what digitalRead(SCREEN_POWER) is there to detect.
PowerFault ==
    /\ pc \in ScreenLoopPcs
    /\ screenPower' = IF screenPower = HIGH THEN LOW ELSE HIGH
    /\ UNCHANGED <<pc, currentMillis, lastDebounceTime, ledPin, frame,
                   screen_on, buttonPressedFlag, episodeToggles, pressPending,
                   reinitOutcome, readOutcome, renders, PollVars>>

PowerFaultNext == ScreenNext \/ PowerFault
PowerFaultSpec == ScreenInit /\ [][PowerFaultNext]_vars

\* The same program under regular passes, long enough for five presses.
LongLoop == Pass(LongSteps, LongElapsed)
LongNext == Setup \/ LongLoop
LongSpec == Init /\ [][LongNext]_vars

\* The same program with passes closer together than debounceDelay.
FineLoop == Pass(FineSteps, FineElapsed)
FineNext == Setup \/ FineLoop
FineSpec == Init /\ [][FineNext]_vars

\* The same program when setup() returns just before millis() wraps.
WrapSetup == SetupAt(WrapStart)
WrapNext == WrapSetup \/ Loop
WrapSpec == Init /\ [][WrapNext]_vars

\* The same program over more than two sensor periods, loop() being called
\* again and again.
LiveLoop == Pass(LiveSteps, LiveElapsed)
LiveNext == Setup \/ LiveLoop
LiveSpec == Init /\ [][LiveNext]_vars /\ WF_vars(Setup) /\ WF_vars(LiveLoop)

\* ------------------------------------------- the start of setup()
\* The two initialization loops of setup(), before the initial read.
BootInit == pc = "displayInit" /\ Globals

\* What these steps leave alone.
BootRest == <<currentMillis, lastDebounceTime, ledPin, readOutcome, renders,
              ScreenVars, PollVars>>

\* while (!initializeDisplay()): the display answers or it does not.
initializeDisplay ==
    /\ pc = "displayInit"
    /\ \E ok \in BOOLEAN :
        /\ pc' = IF ok THEN "sensorInit" ELSE "displayRetry"
        /\ frame' = IF ok THEN <<Text("Display OK")>> ELSE frame
    /\ UNCHANGED BootRest

\* The body of the display loop: "Retrying Display Init...", delay(500).
RetryDisplay ==
    /\ pc = "displayRetry"
    /\ pc' = "displayInit"
    /\ UNCHANGED <<frame, BootRest>>

\* while (!initializeSensor(BME_ADDR, &Wire)), then the "BME280 OK" message.
initializeSensor ==
    /\ pc = "sensorInit"
    /\ \E ok \in BOOLEAN :
        /\ pc' = IF ok THEN "boot" ELSE "sensorRetry"
        /\ frame' = IF ok THEN <<Text("BME280 OK (0x76)")>> ELSE frame
    /\ UNCHANGED BootRest

\* The body of the sensor loop: "Retrying Sensor Init...", delay(500).
RetrySensor ==
    /\ pc = "sensorRetry"
    /\ pc' = "sensorInit"
    /\ UNCHANGED <<frame, BootRest>>

\* setup() from its first line, then loop() again and again.
BootNext ==
    \/ initializeDisplay \/ RetryDisplay \/ initializeSensor \/ RetrySensor
    \/ Setup \/ LiveLoop
BootSpec ==
    /\ BootInit /\ [][BootNext]_vars
    /\ WF_vars(initializeDisplay) /\ WF_vars(RetryDisplay)
    /\ WF_vars(initializeSensor) /\ WF_vars(RetrySensor)
    /\ WF_vars(Setup) /\ WF_vars(LiveLoop)

\* ------------------------------------------- printSensorData() by itself
\* Any mode, error flag, cache content, RTC reading and display buffer;
\* then printSensorData() is called, and called again.
CacheContents ==
    {<<NaN, NaN, NaN, NaN, NaN>>}
        \cup {<<CompensateTemp(s.temp), s.hum, PaToMbar(s.pres),
                MbarToAtm(PaToMbar(s.pres)), AltitudeOf(s.altPres)>> :
                  s \in {x \in Samples : ~ReadFailed(x) /\ x.took = 0}}

RenderInit ==
    /\ pc = "render"
    /\ currentMillis \in RenderTimes
    /\ startTimeEpoch \in StartEpochs
    /\ currentDisplayMode \in 0..(NUM_DISPLAY_MODES - 1)
    /\ sensorReadError \in BOOLEAN
    /\ \E c \in CacheContents :
        /\ currentTemperature = c[1]
        /\ currentHumidity = c[2]
        /\ currentPressureMbar = c[3]
        /\ currentPressureAtm = c[4]
        /\ currentAltitude = c[5]
    /\ frame \in {BlankFrame, ErrorFrame}
    /\ lastSensorReadTime = 0
    /\ lastDisplayUpdateTime = 0
    /\ lastDebounceTime = 0
    /\ buttonState = HIGH
    /\ lastButtonState = HIGH
    /\ ledIsOn = FALSE
    /\ ledBlinkStartTime = 0
    /\ ledPin = HIGH
    /\ rawSince = 0
    /\ pressStart = 0
    /\ episodeAdvances = 0
    /\ buttonChanged = FALSE
    /\ modeAdvanced = FALSE
    /\ readOutcome = "none"
    /\ displayRan = FALSE
    /\ blinkOffFired = FALSE
    /\ renders = 0
    /\ screen_on = TRUE
    /\ buttonPressedFlag = FALSE
    /\ screenPower = LOW
    /\ episodeToggles = 0
    /\ pressPending = FALSE
    /\ reinitOutcome = "none"
    /\ passLog = <<>>
    /\ presses = 0
    /\ sinceChange = debounceDelay + 1
    /\ awake = 0
    /\ ticksSinceWake = 2

\* One call of printSensorData(): the display is written, nothing else.
Render ==
    /\ pc = "render"
    /\ renders < 2
    /\ frame' = printSensorData(frame, currentDisplayMode, sensorReadError,
                                currentTemperature, currentHumidity,
                                currentPressureMbar, currentPressureAtm,
                                currentAltitude, RtcEpoch(currentMillis),
                                startTimeEpoch)
    /\ renders' = renders + 1
    /\ UNCHANGED <<pc, currentMillis, lastDebounceTime, ledPin,
                   readOutcome, ScreenVars, PollVars>>

RenderNext == Render
RenderSpec == RenderInit /\ [][RenderNext]_vars

\* ----------------------------------------------------------- properties
Cache == <<currentTemperature, currentHumidity, currentPressureMbar,
           currentPressureAtm, currentAltitude>>
Looping == pc = "loop"
\* Time the debounced press has lasted so far.
HeldFor == currentMillis - pressStart

\* C1: buttonState changes in a pass only to the level the raw samples have
\* shown, without a raw transition, for more than debounceDelay, from the
\* first pass after setup() on.
C1_ChangeOnlyAfterStableRaw ==
    buttonChanged =>
        /\ lastButtonState = buttonState
        /\ currentMillis - rawSince > debounceDelay

\* The press now running was accepted after more than debounceDelay of
\* stable raw samples.
PressDebounced == buttonState = LOW /\ pressStart - rawSince > debounceDelay

C4_AtMostOneAdvancePerEpisode == episodeAdvances <= 1

C4_Witness ==
    /\ buttonState = LOW /\ ~buttonChanged /\ episodeAdvances = 1
    /\ HeldFor >= 2 * debounceDelay

\* C5: the sensor read runs in a pass exactly when now - lastSensorReadTime >=
\* sensorReadInterval and then lastSensorReadTime becomes now; the timed
\* display update does the same with its own timer (as it stands when the
\* check is made, after a forced refresh of the same pass); a timer moves
\* only to now, so two timed runs of a task are at least a period apart.
C5_TimersFireExactlyOnExpiry ==
    [][Looping =>
        /\ (readOutcome' # "none")
               <=> (currentMillis' - lastSensorReadTime >= sensorReadInterval)
        /\ lastSensorReadTime' =
               IF readOutcome' # "none" THEN currentMillis' ELSE lastSensorReadTime
        /\ displayRan'
               <=> (/\ ~modeAdvanced'
                    /\ currentMillis' - lastDisplayUpdateTime
                           >= displayUpdateInterval)
        /\ lastDisplayUpdateTime' =
               IF displayRan' \/ modeAdvanced'
               THEN currentMillis' ELSE lastDisplayUpdateTime]_vars

C5_Witness ==
    /\ Looping /\ readOutcome # "none" /\ displayRan
    /\ currentMillis - SetupEnd > sensorReadInterval

\* C6: a pass in which a button event advances the mode calls
\* printSensorData exactly once, the forced refresh, and rebases
\* lastDisplayUpdateTime to the pass's timestamp; every timed refresh comes at
\* least displayUpdateInterval after the last refresh, forced or timed.
C6_ForcedRefreshRendersOnce ==
    [][/\ modeAdvanced' =>
            /\ renders' = 1
            /\ ~displayRan'
            /\ lastDisplayUpdateTime' = currentMillis'
       /\ (Looping /\ displayRan') =>
            currentMillis' - lastDisplayUpdateTime >= displayUpdateInterval]_vars

C6_Witness == modeAdvanced /\ renders = 1 /\ readOutcome # "none"

\* C7: a failed read sets sensorReadError and leaves every cached value as it
\* was; no step but a successful read changes the cache, so it stays the same
\* across any number of consecutive failed reads.
C7_FailedReadKeepsCache ==
    [][/\ readOutcome' = "failed" => sensorReadError'
       /\ readOutcome' # "ok" => Cache' = Cache]_vars

C7_Witness ==
    Looping /\ readOutcome = "failed" /\ sensorReadError /\ ~isnan(currentAltitude)

\* C8: between passes, sensorReadError implies the LED is lit and no
\* blink-off is pending.
C8_ErrorKeepsLedSolid ==
    (Looping /\ sensorReadError) => (ledPin = LOW /\ ~ledIsOn)

C8_Witness ==
    Looping /\ sensorReadError /\ readOutcome = "none" /\ modeAdvanced

\* C9: the blink-off after a successful read that recorded ledBlinkStartTime
\* = t happens in a pass whose timestamp is at least t + ledBlinkDuration.
C9_BlinkOffNotBeforeDeadline ==
    blinkOffFired => currentMillis >= ledBlinkStartTime + ledBlinkDuration

\* C10: after a successful read all cached fields derive from one and the
\* same sample, and sensorReadError is false.
C10_CacheFromOneSample ==
    readOutcome = "ok" =>
        /\ ~sensorReadError
        /\ \E t \in TempSamples, h \in HumSamples, p \in PresSamples :
            Cache = <<CompensateTemp(t), h, PaToMbar(p),
                      MbarToAtm(PaToMbar(p)), AltitudeOf(p)>>

\* What C11 says of a frame rendered in a mode with an error flag.
FrameFits(f, mode, err) ==
    /\ (f = ErrorFrame) <=> (err /\ mode # UPTIME)
    /\ (err /\ mode \in {PRESSURE_MBAR, PRESSURE_ATM, ALTITUDE, ALL_PRESS_ALT})
           => \A i \in 1..Len(f) : ~f[i].shown
    /\ mode = UPTIME =>
           f = UptimeFrame(RtcEpoch(lastDisplayUpdateTime'), startTimeEpoch)

\* C11: every frame printSensorData sends is the sensor-error screen exactly
\* when sensorReadError is set and the mode is not UPTIME; with the flag set
\* none of the four measurement modes shows a cached value; in UPTIME mode
\* the uptime screen is sent whatever the flag.  (The timed update renders
\* after the pass's sensor read, the forced refresh before it.)
C11_ErrorScreenIffErrorOutsideUptime ==
    [][/\ displayRan' => FrameFits(frame', currentDisplayMode', sensorReadError')
       /\ modeAdvanced' =>
              FrameFits(frame', currentDisplayMode', sensorReadError)]_vars

C11_Witness ==
    /\ Looping /\ displayRan /\ sensorReadError /\ frame = ErrorFrame
    /\ ~isnan(currentPressureMbar)

\* The order of the modes.
ModeOrder == <<PRESSURE_MBAR, PRESSURE_ATM, ALTITUDE, ALL_PRESS_ALT, UPTIME>>
PlaceOf(mode) == CHOOSE i \in 1..Len(ModeOrder) : ModeOrder[i] = mode
Following(mode) == ModeOrder[(PlaceOf(mode) % Len(ModeOrder)) + 1]

\* C12: currentDisplayMode is always one of the NUM_DISPLAY_MODES modes; an
\* accepted press moves it to the mode that follows in ModeOrder, UPTIME
\* being followed by PRESSURE_MBAR, and nothing else moves it; so after
\* every NUM_DISPLAY_MODES presses it is back at its starting value.
C12_PressesCycleThroughModes ==
    [][/\ Len(ModeOrder) = NUM_DISPLAY_MODES
       /\ \E i \in 1..NUM_DISPLAY_MODES : currentDisplayMode' = ModeOrder[i]
       /\ currentDisplayMode' =
              IF modeAdvanced' THEN Following(currentDisplayMode)
              ELSE currentDisplayMode
       /\ currentDisplayMode' = ModeOrder[(presses' % NUM_DISPLAY_MODES) + 1]]_vars

C12_Witness ==
    modeAdvanced /\ presses = NUM_DISPLAY_MODES /\ currentDisplayMode = PRESSURE_MBAR

\* In a pass's log, every a comes before every b.
Before(log, a, b) ==
    \A i, j \in 1..Len(log) : (log[i] = a /\ log[j] = b) => i < j

\* C13 as stated: in every pass the button is handled first, then both
\* timed tasks (sensor read and display update), and the blink-off only
\* after both (here: in the passes whose blink-off was armed by an earlier
\* pass).
C13_BlinkOffAfterBothTimers ==
    ledBlinkStartTime <= currentMillis =>
        /\ Before(passLog, "button", "sensor")
        /\ Before(passLog, "button", "display")
        /\ Before(passLog, "sensor", "blinkOff")
        /\ Before(passLog, "display", "blinkOff")

\* C13 amended: in every pass the button is handled first, then the timed
\* sensor read, then the blink-off, and the timed display update last.
C13_BlinkOffBetweenTimers ==
    /\ Before(passLog, "button", "sensor")
    /\ Before(passLog, "button", "blinkOff")
    /\ Before(passLog, "button", "display")
    /\ Before(passLog, "sensor", "blinkOff")
    /\ Before(passLog, "sensor", "display")
    /\ Before(passLog, "blinkOff", "display")

C13_Witness ==
    /\ passLog = <<"button", "blinkOff", "display">>
    /\ ledBlinkStartTime <= currentMillis

\* The sample setup() took is still the latest raw level: the button has
\* been down since boot.
HeldSinceBoot == Looping /\ lastButtonState = LOW /\ rawSince = SetupEnd

\* C14: when setup() has finished, buttonState and the last raw sample both
\* equal the level read from the pin and both timer baselines equal the
\* clock; and as long as a button held through boot stays down, no press is
\* accepted and the mode does not advance.
C14_BootStateFromPin ==
    /\ (Looping /\ awake = 0) =>
           /\ buttonState = lastButtonState
           /\ lastSensorReadTime = currentMillis
           /\ lastDisplayUpdateTime = currentMillis
    /\ HeldSinceBoot => (presses = 0 /\ buttonState = lastButtonState)

\* C15: while the debounced state is released, a run of LOW raw samples
\* that has lasted no more than debounceDelay changes neither buttonState
\* nor currentDisplayMode, and neither do the HIGH samples around it,
\* wherever the passes fall.
C15_ShortPulseIgnored ==
    [][(/\ buttonState = HIGH
        /\ \/ lastButtonState' = HIGH
           \/ currentMillis' - rawSince' <= debounceDelay)
         => (/\ buttonState' = HIGH
             /\ currentDisplayMode' = currentDisplayMode)]_vars

\* C16: whatever the raw samples, a pass that changes buttonState comes more
\* than debounceDelay after the pass of the previous change.
C16_ChangesMoreThanDelayApart ==
    [][buttonChanged' => sinceChange + (awake' - awake) > debounceDelay]_vars

C16_Witness ==
    /\ buttonChanged /\ buttonState = HIGH /\ presses = 1
    /\ currentMillis - SetupEnd <= 3 * debounceDelay

\* The step is the pass in which the press under way has lasted
\* buttonHoldDuration for the first time.
ReachesHold ==
    /\ buttonState = LOW /\ buttonState' = LOW
    /\ HeldFor < buttonHoldDuration /\ HeldFor' >= buttonHoldDuration

CursorAndCache == <<currentDisplayMode, Cache, sensorReadError>>
Asleep == pc = "asleep"

\* C18: going to sleep and waking up both leave the mode cursor, every
\* cached value and the error flag as they were; the wake resets the
\* indicator and both timers.
C18_SleepWakeKeepsCursorAndCache ==
    [][/\ (Asleep \/ Asleep') => CursorAndCache' = CursorAndCache
       /\ (Asleep /\ ~Asleep') =>
            /\ ledPin' = HIGH /\ ~ledIsOn'
            /\ lastSensorReadTime' # lastSensorReadTime
            /\ lastDisplayUpdateTime' # lastDisplayUpdateTime]_vars

C18_Witness ==
    /\ Looping /\ ticksSinceWake = 0 /\ sensorReadError
    /\ currentDisplayMode = PRESSURE_ATM /\ ~isnan(currentPressureAtm)

\* C20: the first pass after a wake runs both the sensor read and the timed
\* display update, however long the sleep and whatever the clock at wake.
C20_BothTasksRunAfterWake ==
    [][(ticksSinceWake = 0 /\ ticksSinceWake' = 1) =>
            (readOutcome' # "none" /\ displayRan')]_vars

C20_Witness ==
    /\ Looping /\ ticksSinceWake = 1 /\ readOutcome # "none" /\ displayRan
    /\ currentMillis < SetupEnd

\* C21: a second call of printSensorData() with the same mode, cache, error
\* flag and RTC reading leaves the frame the first call sent, whatever the
\* display showed before; and a call changes none of the mode, the cache,
\* the error flag, the LED state, the debounce state and the two timers.
C21_RenderIsIdempotent ==
    [][pc = "render" =>
        /\ renders = 1 => frame' = frame
        /\ UNCHANGED <<currentDisplayMode, Cache, sensorReadError, ledPin,
                       ledIsOn, ledBlinkStartTime, lastDebounceTime,
                       buttonState, lastButtonState, lastSensorReadTime,
                       lastDisplayUpdateTime>>]_vars

C21_Witness ==
    /\ pc = "render" /\ renders = 2 /\ currentDisplayMode = UPTIME
    /\ sensorReadError /\ Len(frame) = 2 /\ frame[2].value = 1010101

\* The display shows what has been measured (in UPTIME mode: the uptime).
MeasurementsShown ==
    /\ frame # BlankFrame /\ frame # ErrorFrame
    /\ \E i \in 1..Len(frame) : frame[i].shown
LongestLiveStep == CHOOSE s \in LiveSteps : \A x \in LiveSteps : x <= s
\* The error flag is set and a sensor period of passes, and one pass more,
\* is to come.
ErrorWithReadToCome ==
    /\ Looping /\ sensorReadError
    /\ awake + sensorReadInterval + LongestLiveStep <= LiveElapsed

\* C22: sensorReadError is set by a failed read and by nothing else, cleared
\* by a successful read and by nothing else; a read in loop() comes no
\* earlier than sensorReadInterval after the read before it, failed or not;
\* and when the flag is set, the passes go on and no read fails any more,
\* the flag is eventually clear and the display shows measurements instead
\* of the error screen.
C22_ErrorUntilGoodRead ==
    /\ [][/\ sensorReadError' # sensorReadError =>
                readOutcome' = (IF sensorReadError THEN "ok" ELSE "failed")
          /\ readOutcome' = "ok" => ~sensorReadError'
          /\ readOutcome' = "failed" => sensorReadError'
          /\ (Looping /\ readOutcome' # "none") =>
                currentMillis' - lastSensorReadTime >= sensorReadInterval]_vars
    /\ (ErrorWithReadToCome /\ [](readOutcome # "failed"))
           ~> (~sensorReadError /\ MeasurementsShown)

C22_Witness ==
    /\ Looping /\ ~sensorReadError /\ readOutcome = "ok" /\ frame = ErrorFrame
    /\ awake >= 2 * sensorReadInterval

\* The time a timestamp of WrapSpec stands for: the counter has wrapped
\* once when it is below WrapStart.
TrueTime(t) == IF t >= WrapStart THEN t ELSE t + ULongModulus
\* Timestamps and elapsed times for the comparisons by themselves.
WrapLasts == {0, 1, sensorReadInterval, WrapStart, ULongModulus - 1}
WrapElapsedTimes ==
    {0, 1, displayUpdateInterval - 1, displayUpdateInterval,
     sensorReadInterval - 1, sensorReadInterval, WrapStart, ULongModulus - 1}

\* C23: across the wrap of millis() the sensor read and the timed display
\* update run in a pass exactly when the time that has really passed since
\* the task's last run is at least its period, also when now is the smaller
\* number; and for every last run and every elapsed time below the modulus
\* the comparison gives elapsed >= period.
C23_TimersCorrectAcrossWrap ==
    [][/\ Looping =>
            /\ (readOutcome' # "none")
                   <=> (TrueTime(currentMillis') - TrueTime(lastSensorReadTime)
                            >= sensorReadInterval)
            /\ displayRan'
                   <=> (/\ ~modeAdvanced'
                        /\ TrueTime(currentMillis')
                               - TrueTime(lastDisplayUpdateTime)
                                   >= displayUpdateInterval)
       /\ \A last \in WrapLasts, e \in WrapElapsedTimes :
            /\ SensorDue(ClockAdd(last, e), last) <=> e >= sensorReadInterval
            /\ DisplayDue(ClockAdd(last, e), last)
                   <=> e >= displayUpdateInterval]_vars

C23_Witness ==
    /\ Looping /\ readOutcome # "none" /\ displayRan
    /\ currentMillis < sensorReadInterval

\* C24: setup() comes to its end after finitely many attempts, also when
\* the display or the sensor never answers; and loop() starts only when
\* both initialization loops and the rest of setup() are done.
C24_SetupTerminates ==
    /\ <>Looping
    /\ [][Looping' => (Looping \/ pc = "boot")]_vars

\* C25: a step that does not call readSensors() leaves every cached value
\* and sensorReadError as they were, whatever else it does (button
\* processing, mode advance, blink-off, printSensorData); and in a pass that
\* reads, the forced refresh, which comes before the read, still draws the
\* values and the flag of before the pass.
C25_OnlyReadWritesCache ==
    [][/\ readOutcome' = "none" => UNCHANGED <<Cache, sensorReadError>>
       /\ (modeAdvanced' /\ ~displayRan') =>
            frame' = printSensorData(frame, currentDisplayMode',
                         sensorReadError, currentTemperature,
                         currentHumidity, currentPressureMbar,
                         currentPressureAtm, currentAltitude,
                         RtcEpoch(currentMillis'), startTimeEpoch)]_vars

C25_Witness ==
    /\ Looping /\ modeAdvanced /\ blinkOffFired /\ readOutcome = "none"
    /\ renders = 1 /\ ~isnan(currentTemperature) /\ MeasurementsShown

\* C26: between passes, a pending blink-off (ledIsOn) implies that the LED
\* is lit and that sensorReadError is false.
C26_PendingBlinkMeansLitAndNoError ==
    (Looping /\ ledIsOn) => (ledPin = LOW /\ ~sensorReadError)

C26_Witness ==
    /\ Looping /\ ledIsOn /\ ledPin = LOW /\ readOutcome = "ok"
    /\ awake >= sensorReadInterval /\ ledBlinkStartTime = currentMillis

\* The last read succeeded and enough passes are to come.
GoodReadWithPassToCome ==
    /\ Looping /\ readOutcome = "ok"
    /\ awake + LongestLiveStep <= LiveElapsed

C28_StablePressTakenAtFirstTickPastDelay ==
    [][(Looping /\ buttonState = HIGH /\ lastButtonState' = LOW) =>
        /\ (buttonState' = LOW) <=> (currentMillis' - rawSince' > debounceDelay)
        /\ modeAdvanced' <=> (buttonState' = LOW)
        /\ modeAdvanced' => episodeAdvances' = 1]_vars

\* The display shows the frame of the mode, flag and cache as they are now
\* (in UPTIME mode, of the RTC as it was at the last refresh).
FrameCurrent ==
    frame = printSensorData(frame, currentDisplayMode, sensorReadError,
                currentTemperature, currentHumidity, currentPressureMbar,
                currentPressureAtm, currentAltitude,
                RtcEpoch(lastDisplayUpdateTime), startTimeEpoch)

\* C29: between passes the display shows the current mode, flag and cache,
\* unless the last pass that read began less than displayUpdateInterval
\* ago: a change is on the display at the latest in the first pass that
\* begins displayUpdateInterval or more after it, also when the pass of the
\* read drew its forced refresh before reading and skipped the timed one.
C29_ChangeShownWithinDisplayPeriod ==
    Looping =>
        \/ FrameCurrent
        \/ Sub(currentMillis, lastSensorReadTime) < displayUpdateInterval

C29_Witness ==
    /\ Looping /\ modeAdvanced /\ readOutcome = "ok" /\ ~FrameCurrent
    /\ awake >= sensorReadInterval

\* The screen-toggle program is in loop() with the screen off.
ScreenOff == pc \in ScreenLoopPcs /\ ~screen_on

\* C30: in the interrupt-driven program one press episode, with bouncing
\* falling edges when the button goes down and when it is let go, makes
\* loop() accept at most one press (one screen toggle), however the ISR
\* falls between the steps of loop().
C30_BounceCausesAtMostOneAction ==
    pc \in ScreenLoopPcs => episodeToggles <= 1

\* C31: in the screen-toggle program no press is lost: a falling edge that
\* comes more than debounceDelay after the last accepted press keeps
\* buttonPressedFlag raised until loop() accepts a press and toggles the
\* screen, also when the edge falls between the test of the flag and its
\* reset.
C31_NoGenuinePressLost ==
    pc \in ScreenLoopPcs => (pressPending => buttonPressedFlag)

\* C32: when setup() and every iteration of loop() end, the display power
\* pin is HIGH exactly if screen_on is true, whatever the presses and the
\* outcomes of display.begin().
C32_PowerMatchesScreenOn ==
    pc = "flagTest" => (screenPower = HIGH <=> screen_on)

\* An iteration in which turning the screen on failed has ended.
C32_Witness ==
    /\ pc = "flagTest" /\ reinitOutcome = "toggleFailed"
    /\ ~screen_on /\ screenPower = LOW

\* display.begin() failed in the iteration.
ReinitFailed == reinitOutcome \in {"toggleFailed", "checkFailed"}

\* C33: an iteration of loop() in which display.begin() failed, in the
\* toggle or in the power check, ends with screen_on false and the display
\* power LOW; when the power check fails the iteration ends there, with no
\* sensor read, no render and no heartbeat blink.
C33_FailedReinitLeavesScreenOff ==
    [][/\ (pc # "flagTest" /\ pc' = "flagTest" /\ ReinitFailed')
            => (~screen_on' /\ screenPower' = LOW)
       /\ (reinitOutcome # "checkFailed" /\ reinitOutcome' = "checkFailed")
            => /\ pc = "body" /\ pc' = "flagTest"
               /\ readOutcome' = "none" /\ renders' = 0
               /\ ledPin = HIGH /\ UNCHANGED <<ledPin, frame>>]_vars

\* The power check found the pin LOW and display.begin() failed.
C33_Witness ==
    /\ pc = "flagTest" /\ reinitOutcome = "checkFailed"
    /\ ~screen_on /\ screenPower = LOW
    /\ readOutcome = "none" /\ renders = 0 /\ ledPin = HIGH

\* C34: with screen_on false, a step of loop() that accepts no press reads
\* no sensor, writes nothing to the display, does not start the display
\* or the heartbeat, and leaves screen_on false and the cache as it was.
C34_NothingReadOrDrawnWhileOff ==
    [][(pc \in ScreenLoopPcs /\ ~screen_on
            /\ lastDebounceTime' = lastDebounceTime)
        => /\ ~screen_on'
           /\ frame' = frame
           /\ readOutcome' \in {readOutcome, "none"}
           /\ renders' \in {renders, 0}
           /\ reinitOutcome' \in {reinitOutcome, "none"}
           /\ pc' # "heartbeat"
           /\ (pc = "body" /\ pc' # pc)
                => (screenPower' = LOW /\ ledPin' = HIGH)
           /\ UNCHANGED <<Cache, sensorReadError>>]_vars

\* Two iterations with the screen off have ended since the press that
\* turned it off.
C34_Witness ==
    /\ pc = "flagTest" /\ ~screen_on /\ reinitOutcome = "none"
    /\ currentMillis = lastDebounceTime + 750
    /\ screenPower = LOW /\ ledPin = HIGH /\ readOutcome = "none"

\* The days, hours, minutes and seconds the uptime line on the display
\* spells.
ShownDays == frame[2].value \div 1000000
ShownHours == (frame[2].value \div 10000) % 100
ShownMinutes == (frame[2].value \div 100) % 100
ShownSeconds == frame[2].value % 100
\* printSensorData() has drawn the UPTIME screen.
UptimeDrawn == pc = "render" /\ renders >= 1 /\ currentDisplayMode = UPTIME

\* C35: the uptime on the UPTIME screen is that of currentEpoch -
\* startTimeEpoch seconds when currentEpoch >= startTimeEpoch and of 0
\* seconds otherwise, with seconds and minutes below 60, hours below 24 and
\* days * 86400 + hours * 3600 + minutes * 60 + seconds the total.
C35_UptimeDecomposition ==
    UptimeDrawn =>
        /\ ShownSeconds \in 0..59 /\ ShownMinutes \in 0..59
        /\ ShownHours \in 0..23 /\ ShownDays >= 0
        /\ ShownDays * 86400 + ShownHours * 3600 + ShownMinutes * 60
                + ShownSeconds
            = IF RtcEpoch(currentMillis) >= startTimeEpoch
              THEN RtcEpoch(currentMillis) - startTimeEpoch ELSE 0

\* The RTC reads less than startTimeEpoch: the screen shows 0 d 00:00:00.
C35_Witness ==
    /\ UptimeDrawn /\ RtcEpoch(currentMillis) < startTimeEpoch
    /\ frame[2].value = 0

\* C19: from the step that turns the screen off, and for as long as it is
\* off, the LED is off and no blink is under way, whatever the last sensor
\* read gave.
C19_LedOffWhileScreenOff ==
    ScreenOff => (ledPin = HIGH /\ pc # "heartbeat")

C19_Witness ==
    ScreenOff /\ pc = "flagReset" /\ readOutcome = "failed" /\ ledPin = HIGH

====
